---- MODULE Spec2Model ----
(***************************************************************************)
(* Falling-motion simulator (src/app.py): the kinematics functions, the    *)
(* simulate pipeline (time grid, model dispatch, axis set-up, frame-by-    *)
(* frame encoding to video.mp4), the run-button handler, format_quality,   *)
(* and several sessions of the app sharing the output file.                *)
(*                                                                         *)
(* Numbers.  Times are exact rationals <<num, den>> in lowest terms.       *)
(* Free-fall values are fixed-point integers in units of 1/Unit (1e-5),    *)
(* each product rounded down, as a float operation rounds.  For the        *)
(* air-resistance formulas only the IEEE class of each sample is kept      *)
(* (finite, nan, neginf): the class is what decides whether the axis       *)
(* set-up raises.  Strings: "Velocity" and "Height" stand for the two      *)
(* radio options of line 145, "low"/"medium"/"high" for the three labels   *)
(* of format_quality.                                                      *)
(***************************************************************************)
EXTENDS Integers, Sequences, FiniteSets

VARIABLES
    pc,         \* position of the run-button handler / simulate
    args,       \* the eight arguments of simulate
    x,          \* the time grid (line 53)
    y,          \* the evaluated series (lines 55-67)
    fn,         \* the kinematics function that was called
    evals,      \* how many times a kinematics function was called on the grid
    ax,         \* the axes: limits, labels, title (lines 69-93)
    line,       \* the Line2D data set by update (line 85)
    ani,        \* the FuncAnimation: frames, interval (lines 95-101)
    frame,      \* next frame number ani.save will draw
    video,      \* video.mp4 as written by this run
    shown,      \* what placeholder.video presented (line 168)
    error,      \* the exception that ended the run, and the stage it was raised in
    stages,     \* the stages this invocation went through
    quality,    \* argument of format_quality
    label,      \* result of format_quality
    spc,        \* sessions: position of each session's handler
    sargs,      \* sessions: the parameters each session runs with
    swritten,   \* sessions: chunks each session has written in its save
    writers,    \* sessions: the sessions that have video.mp4 open for writing
    file,       \* sessions: content of the shared video.mp4
    sshown      \* sessions: what each session presented

vars == <<pc, args, x, y, fn, evals, ax, line, ani, frame, video, shown, error,
          stages, quality, label, spc, sargs, swritten, writers, file, sshown>>

runVars == <<pc, args, x, y, fn, evals, ax, line, ani, frame, video, shown,
             error, stages>>
qualityVars == <<quality, label>>
sessionVars == <<spc, sargs, swritten, writers, file, sshown>>

(***************************************************************************)
(* Bounds of the model and program constants.                              *)
(***************************************************************************)
MaxSeconds == 2          \* seconds ranges over -1..MaxSeconds
MaxQuality == 70         \* format_quality is applied to MinQuality..MaxQuality
NumSessions == 2         \* sessions of the app running side by side
MaxChunks == 2           \* writes to video.mp4 modelled per save

MinQuality == 0 - 30

g == 980665              \* 9.80665 m/s^2 in units of 1/Unit
Unit == 100 * 1000

\* e ** z is inf in IEEE double iff z > ln(DBL_MAX) = 709.78...; with
\* z = 2*g*t/v_t and v_t^2 = 2*m*g/(rho*Cd*A) that is
\* Cd*A*t^2/m > ln(DBL_MAX)^2 / (2*g*rho) = 20968.3...
ExpOverflowRatio == 20968

SupportedFps == {20, 30, 60}
FpsInputs == SupportedFps \cup {25}
SecondsInputs == (0 - 1)..MaxSeconds
CdInputs == {0, 1}
AInputs == {0, 1, 30000}
hInputs == {0, 70}
mInputs == {0, 1}
Modes == {"Velocity", "Height"}

ArgSets ==
    [Cd : CdInputs, A : AInputs, h : hInputs, m : mInputs,
     air_resistance : BOOLEAN, mode : Modes,
     seconds : SecondsInputs, fps : FpsInputs]

NoArgs ==
    [Cd |-> 0, A |-> 0, h |-> 0, m |-> 0, air_resistance |-> FALSE,
     mode |-> "Velocity", seconds |-> 0, fps |-> 0]

(***************************************************************************)
(* Rationals and float classes.                                            *)
(***************************************************************************)
RECURSIVE GCD(_, _)
GCD(a, b) == IF b = 0 THEN a ELSE GCD(b, a % b)

Abs(n) == IF n < 0 THEN 0 - n ELSE n

Rat(n, d) ==
    LET c == GCD(Abs(n), Abs(d))
    IN  IF c = 0 THEN <<0, 1>> ELSE <<n \div c, d \div c>>

Finite(v) == [cls |-> "finite", val |-> v]
FiniteUnknown == [cls |-> "finite"]
NaN == [cls |-> "nan"]
NegInf == [cls |-> "neginf"]

IsFinite(s) == s.cls = "finite"

\* s * 1.1
Times11(s) ==
    IF IsFinite(s) /\ "val" \in DOMAIN s
    THEN Finite((s.val * 11) \div 10)
    ELSE s

(***************************************************************************)
(* Kinematics engine (lines 10-40).                                        *)
(***************************************************************************)
\* g * t
velocity(t) == Finite((g * t[1]) \div t[2])

\* h - 0.5 * velocity(t) * t
height(h, t) == Finite(h * Unit - (velocity(t).val * t[1]) \div (2 * t[2]))

\* 2*m*g / (rho*Cd*A) on Python floats: a zero divisor raises
\* ZeroDivisionError, whatever the numerator.
TerminalVelocityRaises(Cd, A, m) == Cd * A = 0

\* (2*m*g / (rho*Cd*A)) ** 0.5, by sign: 0.0 for m = 0, positive otherwise.
terminal_velocity_with_air_resistance(Cd, A, m) ==
    IF m = 0 THEN "zero" ELSE "positive"

\* np.e ** (2*g*t/v_t) elementwise on the array: division by v_t = 0.0 gives
\* nan at t = 0 and inf elsewhere; a finite exponent above ln(DBL_MAX) gives inf.
ExpClass(Cd, A, m, t) ==
    IF terminal_velocity_with_air_resistance(Cd, A, m) = "zero"
    THEN IF t[1] = 0 THEN "nan" ELSE "inf"
    ELSE IF Cd * A * t[1] * t[1] > ExpOverflowRatio * m * t[2] * t[2]
         THEN "inf"
         ELSE "finite"

\* v_t * (E - 1) / (E + 1): inf/inf = nan, 0.0 * nan = nan, 0.0 * inf = nan.
velocity_with_air_resistance(Cd, A, m, t) ==
    IF ExpClass(Cd, A, m, t) = "finite" THEN FiniteUnknown ELSE NaN

\* h + (v_t*t - v_t**2/g * log(E + 1) + v_t**2/g * log(2)): log(inf) = inf
\* gives -inf for v_t > 0, and 0.0 * inf = nan for v_t = 0.0.
height_with_air_resistance(Cd, A, h, m, t) ==
    IF ExpClass(Cd, A, m, t) = "finite" THEN FiniteUnknown
    ELSE IF terminal_velocity_with_air_resistance(Cd, A, m) = "zero" THEN NaN
    ELSE NegInf

(***************************************************************************)
(* simulate (lines 43-103).                                                *)
(***************************************************************************)
\* the grid without its end point
GridLengthNoEndpoint(seconds, fps) == fps * seconds

\* the num argument of np.linspace (line 53)
GridLength(seconds, fps) == fps * seconds + 1

\* np.linspace raises ValueError for a negative number of samples.
LinspaceRaises(num) == num < 0

\* np.linspace(0, stop, num): sample k is k * (stop / (num - 1)), and the
\* last sample is set to stop.
linspace(stop, num) ==
    [k \in 1..num |->
        IF num = 1 THEN Rat(0, 1)
        ELSE IF k = num THEN Rat(stop, 1)
        ELSE Rat((k - 1) * stop, num - 1)]

\* the dispatch with the height branch of the air-resistance model calling
\* the free-fall function
SelectFunctionFreeHeight(air_resistance, mode) ==
    IF mode = "Velocity"
    THEN IF air_resistance THEN "velocity_with_air_resistance" ELSE "velocity"
    ELSE "height"

\* the 2x2 dispatch of lines 55-67: which function is called
SelectFunction(air_resistance, mode) ==
    IF air_resistance
    THEN IF mode = "Velocity" THEN "velocity_with_air_resistance"
         ELSE "height_with_air_resistance"
    ELSE IF mode = "Velocity" THEN "velocity"
         ELSE "height"

\* the selected function on one sample
Apply(f, a, t) ==
    CASE f = "velocity" -> velocity(t)
      [] f = "height" -> height(a.h, t)
      [] f = "velocity_with_air_resistance" ->
            velocity_with_air_resistance(a.Cd, a.A, a.m, t)
      [] f = "height_with_air_resistance" ->
            height_with_air_resistance(a.Cd, a.A, a.h, a.m, t)

\* the functions that compute the terminal velocity first
UsesTerminalVelocity(f) ==
    f \in {"velocity_with_air_resistance", "height_with_air_resistance"}

\* the arguments of ax.set_ylim (lines 76-82); y[-0] is y[0]
YLimits(mode, ys) ==
    IF mode = "Velocity"
    THEN <<Finite(0), Times11(ys[Len(ys)])>>
    ELSE <<Times11(ys[Len(ys)]), Times11(ys[1])>>

\* the y-axis label (lines 78, 82)
YLabel(mode) == IF mode = "Velocity" THEN "Velocity (m/s)" ELSE "Height (m)"

\* Axes.set_ylim raises ValueError when a limit is NaN or Inf.
SetLimRaises(lim) == ~IsFinite(lim[1]) \/ ~IsFinite(lim[2])

\* the title (lines 89-93)
Title(air_resistance) ==
    IF air_resistance THEN "Fall Motion with Air Resistance"
    ELSE "Free Fall Motion"

\* update drawing the samples up to and including the frame's own
updateInclusive(k, xs, ys) ==
    [xdata |-> SubSeq(xs, 1, k + 1), ydata |-> SubSeq(ys, 1, k + 1)]

\* update(frame): line.set_data(x[:frame], y[:frame])
update(k, xs, ys) == [xdata |-> SubSeq(xs, 1, k), ydata |-> SubSeq(ys, 1, k)]

\* the stage of the pipeline each position belongs to
StageOf(p) ==
    CASE p = "idle" -> "Idle"
      [] p \in {"grid", "eval"} -> "Computing"
      [] p \in {"figure", "ylim", "animation"} -> "Rendering"
      [] p \in {"save", "frames"} -> "Encoding"
      [] p \in {"present", "done"} -> "Done"
      [] p = "failed" -> "Failed"

Stage == StageOf(pc)

Enter(p) ==
    IF stages[Len(stages)] = StageOf(p) THEN stages
    ELSE Append(stages, StageOf(p))

NoAx == [xlim |-> <<>>, ylim |-> <<>>, xlabel |-> "", ylabel |-> "", title |-> ""]
NoLine == [xdata |-> <<>>, ydata |-> <<>>]
NoAni == [frames |-> 0, interval |-> <<0, 1>>]
NoVideo == [exists |-> FALSE, frames |-> 0, fps |-> 0, complete |-> FALSE]
NoError == [type |-> "none", stage |-> "none"]

\* an exception propagates out of simulate and ends the script run
Raise(type) ==
    /\ error' = [type |-> type, stage |-> Stage]
    /\ pc' = "failed"
    /\ stages' = Enter("failed")

Goto(p) ==
    /\ pc' = p
    /\ stages' = Enter(p)
    /\ error' = error

\* the run button (lines 149-166): simulate is called with the form's values
Click ==
    /\ pc = "idle"
    /\ \E a \in ArgSets : args' = a
    /\ Goto("grid")
    /\ UNCHANGED <<qualityVars, sessionVars, x, y, fn, evals, ax, line, ani, frame, video, shown>>

\* line 53
BuildGrid ==
    /\ pc = "grid"
    /\ LET num == GridLength(args.seconds, args.fps)
       IN  IF LinspaceRaises(num)
           THEN Raise("ValueError") /\ x' = x
           ELSE Goto("eval") /\ x' = linspace(args.seconds, num)
    /\ UNCHANGED <<qualityVars, sessionVars, args, y, fn, evals, ax, line, ani, frame, video, shown>>

\* lines 55-67
Evaluate ==
    /\ pc = "eval"
    /\ LET f == SelectFunction(args.air_resistance, args.mode)
       IN  /\ fn' = f
           /\ evals' = evals + 1
           /\ IF UsesTerminalVelocity(f)
                 /\ TerminalVelocityRaises(args.Cd, args.A, args.m)
              THEN Raise("ZeroDivisionError") /\ y' = y
              ELSE Goto("figure")
                   /\ y' = [k \in 1..Len(x) |-> Apply(f, args, x[k])]
    /\ UNCHANGED <<qualityVars, sessionVars, args, x, ax, line, ani, frame, video, shown>>

\* lines 69-74
CreateFigure ==
    /\ pc = "figure"
    /\ ax' = [ax EXCEPT !.xlim = <<x[1], Rat(x[Len(x)][1] * 11, x[Len(x)][2] * 10)>>,
                        !.xlabel = "Time (s)"]
    /\ line' = NoLine
    /\ Goto("ylim")
    /\ UNCHANGED <<qualityVars, sessionVars, args, x, y, fn, evals, ani, frame, video, shown>>

\* lines 76-82
SetYAxis ==
    /\ pc = "ylim"
    /\ LET lim == YLimits(args.mode, y)
       IN  IF SetLimRaises(lim)
           THEN Raise("ValueError") /\ ax' = ax
           ELSE Goto("animation")
                /\ ax' = [ax EXCEPT !.ylim = lim, !.ylabel = YLabel(args.mode)]
    /\ UNCHANGED <<qualityVars, sessionVars, args, x, y, fn, evals, line, ani, frame, video, shown>>

\* lines 84-101
CreateAnimation ==
    /\ pc = "animation"
    /\ ax' = [ax EXCEPT !.title = Title(args.air_resistance)]
    /\ ani' = [frames |-> Len(x), interval |-> Rat(1000, args.fps)]
    /\ Goto("save")
    /\ UNCHANGED <<qualityVars, sessionVars, args, x, y, fn, evals, line, frame, video, shown>>

\* line 103, ani.save: the writer opens video.mp4 and the animation is
\* drawn once with its first frame
BeginSave ==
    /\ pc = "save"
    /\ video' = [exists |-> TRUE, frames |-> 0, fps |-> args.fps, complete |-> FALSE]
    /\ line' = update(0, x, y)
    /\ frame' = 0
    /\ Goto("frames")
    /\ UNCHANGED <<qualityVars, sessionVars, args, x, y, fn, evals, ax, ani, shown>>

\* line 103, ani.save: frame number `frame` is drawn by update and grabbed
SaveFrame ==
    /\ pc = "frames"
    /\ frame < ani.frames
    /\ line' = update(frame, x, y)
    /\ video' = [video EXCEPT !.frames = @ + 1]
    /\ frame' = frame + 1
    /\ Goto("frames")
    /\ UNCHANGED <<qualityVars, sessionVars, args, x, y, fn, evals, ax, ani, shown>>

\* line 103, ani.save: all frames grabbed, the writer finishes the file
FinishSave ==
    /\ pc = "frames"
    /\ frame = ani.frames
    /\ video' = [video EXCEPT !.complete = TRUE]
    /\ Goto("present")
    /\ UNCHANGED <<qualityVars, sessionVars, args, x, y, fn, evals, ax, line, ani, frame, shown>>

\* line 103, ani.save: the encoder is missing or fails
EncodeFail ==
    /\ pc \in {"save", "frames"}
    /\ Raise("EncoderError")
    /\ UNCHANGED <<qualityVars, sessionVars, args, x, y, fn, evals, ax, line, ani, frame, video, shown>>

\* line 168
Present ==
    /\ pc = "present"
    /\ shown' = video
    /\ Goto("done")
    /\ UNCHANGED <<qualityVars, sessionVars, args, x, y, fn, evals, ax, line, ani, frame, video>>

(***************************************************************************)
(* format_quality (lines 106-113).                                         *)
(***************************************************************************)
\* the labels of 20 and 30 exchanged
format_quality_swapped(q) ==
    IF q = 20 THEN "medium" ELSE IF q = 30 THEN "low" ELSE "high"

format_quality(q) ==
    IF q = 20 THEN "low" ELSE IF q = 30 THEN "medium" ELSE "high"

QualityInputs == MinQuality..MaxQuality

\* format_quality is called on an option
CallFormatQuality ==
    /\ \E q \in QualityInputs :
          /\ quality' = q
          /\ label' = format_quality(q)
    /\ UNCHANGED <<runVars, sessionVars>>

(***************************************************************************)
(* Several sessions of the app (lines 149-170): each runs the script in    *)
(* its own thread, and every simulate writes the one file "video.mp4".     *)
(* simulate's steps before line 103 touch only the session's own values.   *)
(***************************************************************************)
Sessions == 1..NumSessions

SessionArgs ==
    {a \in ArgSets : /\ a.Cd = 1 /\ a.A = 1 /\ a.h = 70 /\ a.m = 1
                     /\ a.air_resistance /\ a.seconds = 1
                     /\ a.fps \in SupportedFps}

NoFile == [exists |-> FALSE, by |-> {}, args |-> NoArgs, complete |-> FALSE]

\* line 149, 157: the button is clicked and simulate starts
SClick(s) ==
    /\ spc[s] = "idle"
    /\ \E a \in SessionArgs : sargs' = [sargs EXCEPT ![s] = a]
    /\ spc' = [spc EXCEPT ![s] = "simulating"]
    /\ UNCHANGED <<runVars, qualityVars, swritten, writers, file, sshown>>

\* line 103: the writer opens video.mp4, replacing what is there
SOpen(s) ==
    /\ spc[s] = "simulating"
    /\ file' = [exists |-> TRUE, by |-> {s}, args |-> sargs[s], complete |-> FALSE]
    /\ writers' = writers \cup {s}
    /\ swritten' = [swritten EXCEPT ![s] = 0]
    /\ spc' = [spc EXCEPT ![s] = "saving"]
    /\ UNCHANGED <<runVars, qualityVars, sargs, sshown>>

\* line 103: frames of this session's animation are written to the file
SWrite(s) ==
    /\ spc[s] = "saving"
    /\ swritten[s] < MaxChunks
    /\ file' = [file EXCEPT !.by = @ \cup {s}, !.complete = FALSE]
    /\ swritten' = [swritten EXCEPT ![s] = @ + 1]
    /\ UNCHANGED <<runVars, qualityVars, spc, sargs, writers, sshown>>

\* line 103: the writer finishes the file and closes it
SClose(s) ==
    /\ spc[s] = "saving"
    /\ swritten[s] = MaxChunks
    /\ file' = [file EXCEPT !.by = @ \cup {s}, !.complete = (file.by \cup {s} = {s})]
    /\ writers' = writers \ {s}
    /\ spc' = [spc EXCEPT ![s] = "encoded"]
    /\ UNCHANGED <<runVars, qualityVars, sargs, swritten, sshown>>

\* line 168: the file, as it is now, is presented
SPresent(s) ==
    /\ spc[s] = "encoded"
    /\ sshown' = [sshown EXCEPT ![s] = file]
    /\ spc' = [spc EXCEPT ![s] = "done"]
    /\ UNCHANGED <<runVars, qualityVars, sargs, swritten, writers, file>>

\* line 170: the back button reruns the script
SRerun(s) ==
    /\ spc[s] = "done"
    /\ sshown' = [sshown EXCEPT ![s] = NoFile]
    /\ spc' = [spc EXCEPT ![s] = "idle"]
    /\ UNCHANGED <<runVars, qualityVars, sargs, swritten, writers, file>>

RunInit ==
    /\ pc = "idle"
    /\ args = NoArgs
    /\ x = <<>>
    /\ y = <<>>
    /\ fn = "none"
    /\ evals = 0
    /\ ax = NoAx
    /\ line = NoLine
    /\ ani = NoAni
    /\ frame = 0
    /\ video = NoVideo
    /\ shown = NoVideo
    /\ error = NoError
    /\ stages = <<"Idle">>

QualityIdle ==
    /\ quality = 30
    /\ label = ""

SessionsIdle ==
    /\ spc = [s \in 1..NumSessions |-> "idle"]
    /\ sargs = [s \in 1..NumSessions |-> NoArgs]
    /\ swritten = [s \in 1..NumSessions |-> 0]
    /\ writers = {}
    /\ file = NoFile
    /\ sshown = [s \in 1..NumSessions |-> NoFile]

Init == RunInit /\ QualityIdle /\ SessionsIdle

Next ==
    \/ Click
    \/ BuildGrid
    \/ Evaluate
    \/ CreateFigure
    \/ SetYAxis
    \/ CreateAnimation
    \/ BeginSave
    \/ SaveFrame
    \/ FinishSave
    \/ EncodeFail
    \/ Present

Spec == Init /\ [][Next]_vars

QualityNext == CallFormatQuality

SpecQuality == Init /\ [][QualityNext]_vars

SessionsNext ==
    \E s \in Sessions :
        \/ SClick(s)
        \/ SOpen(s)
        \/ SWrite(s)
        \/ SClose(s)
        \/ SPresent(s)
        \/ SRerun(s)

SpecSessions == Init /\ [][SessionsNext]_vars

(***************************************************************************)
(* Properties.                                                             *)
(***************************************************************************)
Invoked == pc # "idle"

AfterCompute == Stage \in {"Rendering", "Encoding", "Done"}

HasNonFinite(ys) == \E k \in 1..Len(ys) : ~IsFinite(ys[k])

\* the parameter sets and configs the data model calls valid
ValidArgs(a) ==
    /\ a.Cd > 0 /\ a.A > 0 /\ a.h >= 0 /\ a.m > 0
    /\ a.seconds >= 1 /\ a.fps \in SupportedFps

\* the configs the data model calls valid
ValidConfig(a) == a.seconds >= 1 /\ a.fps \in SupportedFps

\* C1: a run with Cd = 0 or A = 0, under any config, never reaches the
\* rendering or encoding steps (it ends in a DomainError).  (Stated for the
\* configs and masses that are valid in themselves.)
C1_ZeroDragOrAreaNeverRendered ==
    (Invoked /\ ValidConfig(args) /\ args.m > 0 /\ (args.Cd = 0 \/ args.A = 0))
        => ~AfterCompute

\* C2: a run with seconds < 1 or fps outside {20, 30, 60} fails before any
\* computation: no grid is built, no kinematics function is evaluated, no
\* frame is drawn or encoded.
C2_InvalidConfigNothingComputed ==
    (Invoked /\ (args.seconds < 1 \/ args.fps \notin SupportedFps)) =>
        /\ x = <<>>
        /\ evals = 0
        /\ line = NoLine
        /\ ~video.exists

\* C3: a series that contains a NaN or Inf sample is never handed to the
\* rendering step (axis limits, frame updates, encoding).  (Stated for the
\* overflow case: parameters and config valid in themselves.)
C3_NonFiniteSeriesNeverRendered ==
    (ValidArgs(args) /\ HasNonFinite(y)) => ~AfterCompute

PipelineOrder ==
    <<"Idle", "Validating", "Computing", "Rendering", "Encoding", "Done">>

IsPipelinePrefix(sq) ==
    /\ Len(sq) <= Len(PipelineOrder)
    /\ \A i \in 1..Len(sq) : sq[i] = PipelineOrder[i]

\* C4: an invocation goes through Idle, Validating, Computing, Rendering,
\* Encoding, Done in that order, none skipped or repeated; a failure moves
\* it to Failed, after which no later stage runs.
C4_StagesInPipelineOrder ==
    Invoked =>
        \/ IsPipelinePrefix(stages)
        \/ /\ stages[Len(stages)] = "Failed"
           /\ IsPipelinePrefix(SubSeq(stages, 1, Len(stages) - 1))

\* C5: for seconds >= 1 and fps in {20, 30, 60} the grid has fps*seconds+1
\* samples, starts at 0, ends at seconds, is strictly increasing, and sample
\* k equals k/fps, consecutive samples being 1/fps apart.
C5_GridUniform ==
    (pc \notin {"idle", "grid"} /\ args.seconds >= 1 /\ args.fps \in SupportedFps) =>
        /\ Len(x) = args.fps * args.seconds + 1
        /\ x[1] = <<0, 1>>
        /\ x[Len(x)] = <<args.seconds, 1>>
        /\ \A k \in 1..Len(x) : x[k][1] * args.fps = (k - 1) * x[k][2]
        /\ \A k \in 1..(Len(x) - 1) :
              /\ x[k][1] * x[k + 1][2] < x[k + 1][1] * x[k][2]
              /\ (x[k + 1][1] * x[k][2] - x[k][1] * x[k + 1][2]) * args.fps
                    = x[k][2] * x[k + 1][2]

C5_Witness ==
    /\ pc = "done"
    /\ args.seconds = 2 /\ args.fps = 20
    /\ Len(x) = 41
    /\ x[2] = <<1, 20>>

\* C6: format_quality gives "low" for 20, "medium" for 30 and "high" for
\* every other integer, 60 included; it returns a label for every input.
C6_QualityLabels ==
    label # "" =>
        /\ quality = 20 => label = "low"
        /\ quality = 30 => label = "medium"
        /\ quality \notin {20, 30} => label = "high"
        /\ label \in {"low", "medium", "high"}

C6_Witness == quality = 60 /\ label = "high"

\* C7: the animation has N = len(x) frames 0..N-1; frame k draws exactly the
\* first k samples, so frame 0 draws nothing, the prefix grows by one sample
\* per frame, and the last sample is never drawn.
C7_FramesRevealPrefixes ==
    /\ pc \in {"save", "frames", "present", "done"} => ani.frames = Len(x)
    /\ pc = "frames" =>
          /\ frame \in 0..ani.frames
          /\ video.frames = frame
          /\ LET k == IF frame = 0 THEN 0 ELSE frame - 1
             IN  /\ line.xdata = SubSeq(x, 1, k)
                 /\ line.ydata = SubSeq(y, 1, k)
                 /\ Len(line.xdata) = k
    /\ pc \in {"present", "done"} =>
          /\ video.frames = Len(x)
          /\ Len(line.xdata) = Len(x) - 1
    /\ pc \in {"frames", "present", "done"} => Len(line.xdata) < Len(x)

C7_Witness ==
    /\ pc = "done"
    /\ video.frames = 21
    /\ Len(line.xdata) = 20
    /\ line.xdata[20] = <<19, 20>>

\* C8: the function evaluated is the one the pair (air_resistance, mode)
\* selects; it is evaluated once, over the whole grid, before any frame is
\* drawn; and the y-axis label and limits are those of the same mode.
C8_DispatchAndAxisAgree ==
    /\ fn # "none" =>
          /\ (~args.air_resistance /\ args.mode = "Velocity") => fn = "velocity"
          /\ (~args.air_resistance /\ args.mode = "Height") => fn = "height"
          /\ (args.air_resistance /\ args.mode = "Velocity")
                => fn = "velocity_with_air_resistance"
          /\ (args.air_resistance /\ args.mode = "Height")
                => fn = "height_with_air_resistance"
    /\ AfterCompute => (evals = 1 /\ Len(y) = Len(x))
    /\ (line # NoLine \/ video.exists) => (evals = 1 /\ Len(y) = Len(x))
    /\ ax.ylabel # "" =>
          IF fn \in {"velocity", "velocity_with_air_resistance"}
          THEN /\ ax.ylabel = "Velocity (m/s)"
               /\ ax.ylim = <<Finite(0), Times11(y[Len(y)])>>
          ELSE /\ ax.ylabel = "Height (m)"
               /\ ax.ylim = <<Times11(y[Len(y)]), Times11(y[1])>>

C8_Witness ==
    /\ pc = "done"
    /\ args.air_resistance /\ args.mode = "Height"
    /\ fn = "height_with_air_resistance"
    /\ evals = 1
    /\ ax.ylabel = "Height (m)"

\* C9: for valid parameters the y-axis range contains every sample: in
\* velocity mode 0 <= y[k] <= y_last*1.1, in height mode
\* y_last*1.1 <= y[k] <= y_first*1.1.  (Stated on the free-fall series,
\* whose values the model carries.)
C9_AxisContainsSeries ==
    (ax.ylabel # "" /\ ValidArgs(args) /\ ~args.air_resistance) =>
        \A k \in 1..Len(y) :
            /\ ax.ylim[1].val <= y[k].val
            /\ y[k].val <= ax.ylim[2].val

OwnVideo(s) ==
    [exists |-> TRUE, by |-> {s}, args |-> sargs[s], complete |-> TRUE]

\* C10: no two invocations write video.mp4 at the same time, and the video
\* a session presents after its run is the one encoded from its own
\* parameters.
C10_ExclusiveWriterOwnVideo ==
    /\ Cardinality(writers) <= 1
    /\ \A s \in Sessions : spc[s] = "done" => sshown[s] = OwnVideo(s)

====
